---- MODULE Spec2Model ----
(***************************************************************************)
(* A model of scripts/diff_rulekeys.py: the value-list differ              *)
(* (KeyValueDiff), the log loader and structure index                      *)
(* (RuleKeyStructureInfo), the per-object comparison (diffInternal) and    *)
(* the breadth-first traversals (diffAndReturnSeen, diff, diffAll).        *)
(*                                                                         *)
(* Strings are modelled by integer codes that keep Python's string order   *)
(* and the conversions the code applies to them:                           *)
(*     60            '<missing>'                                           *)
(*     65..90        a one-letter upper-case literal ('A' = 65)            *)
(*     97..122       a one-letter lower-case literal ('a' = 97)            *)
(*     1000 + k      'ruleKey(sha1=k)', a reference to identifier k        *)
(*     2000 + k      'rulekey(sha1=k)', the lower-cased reference text     *)
(*     3000 + c      'string("c")', the quoting wrapper around c           *)
(*     n*5000 + v - 1000000    '"n"@v', value v annotated with name n      *)
(* Object identifiers (sha1 tokens) are positive integers, HumanNames are  *)
(* the codes of one-letter strings, 0 stands for Python's None.            *)
(***************************************************************************)
EXTENDS Integers, Sequences, FiniteSets, TLC

VARIABLES
    \* ---- KeyValueDiff object (lines 68-152)
    d_left, d_right, d_out, d_done,
    \* ---- log loading (lines 156-167, 217-289)
    file, ld_pos, entries, key_to_struct, ld_pc,
    \* ---- dependency alignment inside diffInternal (lines 361-379)
    al_left, al_right, al_out, al_pc,
    \* ---- the two indexes and the traversals (lines 442-528)
    left_info, right_info, verbose, pc, mode, cur_name,
    queue, seen_keys, visited_keys, result, trav_lines,
    seen_left_names, all_results, compared, started

differVars == <<d_left, d_right, d_out, d_done>>
loadVars   == <<file, ld_pos, entries, key_to_struct, ld_pc>>
alignVars  == <<al_left, al_right, al_out, al_pc>>
infoVars   == <<left_info, right_info, verbose>>
travVars   == <<pc, mode, cur_name, queue, seen_keys, visited_keys, result,
                trav_lines, seen_left_names, all_results, compared, started>>
vars == <<differVars, loadVars, alignVars, infoVars, travVars>>

-----------------------------------------------------------------------------
\* Bounds of the model.
MaxLen   == 3      \* observations appended to one KeyValueDiff
MaxLines == 3      \* lines of a log file
MaxDeps  == 3      \* length of a reference list given to the alignment pass
NObj     == 3      \* objects logged in each of the two logs

\* Python's None, for identifiers and for names.
None == 0
\* The string codes (see the header).
MISSING  == 60
RefBase  == 1000
LowBase  == 2000
StrBase  == 3000
AnnMod   == 5000
AnnBase  == 1000000

Max(a, b) == IF a >= b THEN a ELSE b
Range(s) == {s[i] : i \in 1..Len(s)}
SeqsUpTo(S, n) == UNION {[1..k -> S] : k \in 0..n}
\* The element of a one-element set.  The({e(x) : x \in {v}}) computes v once
\* and then e of it: a value used several times is bound this way.
The(S) == CHOOSE x \in S : TRUE

-----------------------------------------------------------------------------
\* String conversions on the codes.

IsRefCode(v) == v > RefBase /\ v < LowBase
IsAnnotated(v) == v < 0
AnnName(v) == (v + AnnBase) \div AnnMod
AnnValue(v) == (v + AnnBase) % AnnMod

\* str.lower()
RECURSIVE Lower(_)
Lower(v) ==
    IF IsAnnotated(v)
      THEN Lower(AnnName(v)) * AnnMod + Lower(AnnValue(v)) - AnnBase
    ELSE IF v >= 65 /\ v <= 90 THEN v + 32
    ELSE IF IsRefCode(v) THEN v + (LowBase - RefBase)
    ELSE IF v > StrBase /\ v < AnnMod THEN StrBase + Lower(v - StrBase)
    ELSE v

\* '"%s"@%s' % (name, value)
Annotate(name, v) == name * AnnMod + v - AnnBase

\* sorted(): insertion sort on the codes' order.
RECURSIVE InsertSorted(_, _)
InsertSorted(x, s) ==
    IF s = <<>> THEN <<x>>
    ELSE IF x <= Head(s) THEN <<x>> \o s
    ELSE <<Head(s)>> \o InsertSorted(x, Tail(s))

RECURSIVE Sorted(_)
Sorted(s) == IF s = <<>> THEN <<>> ELSE InsertSorted(Head(s), Sorted(Tail(s)))

RECURSIVE SortedSet(_)
SortedSet(S) ==
    IF S = {} THEN <<>>
    ELSE LET m == CHOOSE x \in S : \A y \in S : x <= y
         IN <<m>> \o SortedSet(S \ {m})

RECURSIVE Filter(_, _)
Filter(s, Drop) ==
    IF s = <<>> THEN <<>>
    ELSE IF Head(s) \in Drop THEN Filter(Tail(s), Drop)
    ELSE <<Head(s)>> \o Filter(Tail(s), Drop)

-----------------------------------------------------------------------------
\* KeyValueDiff.diff

\* A line of a differ report: the message and the values it prints.
DLine(kind, l, r) == [kind |-> kind, left |-> l, right |-> r]
NoChanges == DLine("No changes", <<>>, <<>>)
OrderOnly(l, r) == DLine("Only order of entries differs", l, r)
OrderAndCaseOnly == DLine("Only order and letter casing of entries differs", <<>>, <<>>)
Minus(v) == DLine("-", <<v>>, <<>>)
Plus(v) == DLine("+", <<>>, <<v>>)
OrderOnlyRemaining(l, r) == DLine("Only order of remaining entries differs", l, r)
OrderRepsRemaining(l, r) ==
    DLine("Order and repetition count of remaining entries differs", l, r)

\* dict([(v.lower(), v) for v in values]): a later value replaces an earlier one
LowerIndex(values) ==
    [k \in {Lower(values[i]) : i \in 1..Len(values)} |->
        LET last == CHOOSE i \in 1..Len(values) :
                        /\ Lower(values[i]) = k
                        /\ \A j \in 1..Len(values) : Lower(values[j]) = k => j <= i
        IN values[last]]

RECURSIVE CaseDifferences(_, _, _)
CaseDifferences(ks, li, ri) ==
    IF ks = <<>> THEN <<>>
    ELSE (IF li[Head(ks)] # ri[Head(ks)]
            THEN <<Minus(li[Head(ks)]), Plus(ri[Head(ks)])>>
            ELSE <<>>)
         \o CaseDifferences(Tail(ks), li, ri)

\* for l, r in map(None, left_common, right_common): the shorter list is padded
\* with None, equal pairs are dropped
NotInOrder(mine, other) ==
    LET n == Max(Len(mine), Len(other))
        At(s, i) == IF i <= Len(s) THEN s[i] ELSE None
        F[i \in 0..n] ==
            IF i = 0 THEN <<>>
            ELSE IF At(mine, i) = At(other, i) \/ At(mine, i) = None THEN F[i-1]
            ELSE Append(F[i-1], At(mine, i))
    IN F[n]

\* [self._left_format % v for v in ...], [self._right_format % v for v in ...]
MinusLines(s) == [i \in 1..Len(s) |-> Minus(s[i])]
PlusLines(s) == [i \in 1..Len(s) |-> Plus(s[i])]

DiffGeneral(L, R) ==
    LET left_set == Range(L)
        right_set == Range(R)
        left_only == left_set \ right_set
        right_only == right_set \ left_set
        left_common == Filter(L, left_only)
        right_common == Filter(R, right_only)
        left_not_in_order == NotInOrder(left_common, right_common)
        right_not_in_order == NotInOrder(right_common, left_common)
        res == MinusLines(SortedSet(left_only))
               \o PlusLines(SortedSet(right_only))
    IN IF Len(left_not_in_order) > 0
         THEN Append(res,
                IF Len(left_not_in_order) = Len(right_not_in_order)
                  THEN OrderOnlyRemaining(left_not_in_order, right_not_in_order)
                  ELSE OrderRepsRemaining(left_not_in_order, right_not_in_order))
         ELSE res

DiffOrderAndCase(L, R) ==
    LET li == LowerIndex(L)
        ri == LowerIndex(R)
    IN IF DOMAIN li = DOMAIN ri
         THEN <<OrderAndCaseOnly>> \o CaseDifferences(SortedSet(DOMAIN li), li, ri)
         ELSE DiffGeneral(L, R)

\* The mutated differ of claim C8: rule 2 compares the two sides as sets.
KeyValueDiff_diff_SetCompare(L, R) ==
    IF L = R THEN <<NoChanges>>
    ELSE IF Range(L) = Range(R) THEN <<OrderOnly(L, R)>>
    ELSE DiffOrderAndCase(L, R)

KeyValueDiff_diff(L, R) ==
    IF L = R THEN <<NoChanges>>
    ELSE IF Sorted(L) = Sorted(R) THEN <<OrderOnly(L, R)>>
    ELSE DiffOrderAndCase(L, R)

-----------------------------------------------------------------------------
\* RuleKeyStructureInfo: structures, entries and the two maps.
\*
\* An ObjectStructure (an OrderedDict) is a sequence of fields
\* [k |-> field name, v |-> sequence of values] in insertion order; an entry is
\* [key |-> identifier, struct |-> structure].

Field(k, v) == [k |-> k, v |-> v]
Entry(key, struct) == [key |-> key, struct |-> struct]

\* structure.keys(): a list, in insertion order
Keys(structure) == [i \in 1..Len(structure) |-> structure[i].k]
HasField(structure, k) == \E i \in 1..Len(structure) : structure[i].k = k
\* structure.get(k, set([]))
Get(structure, k) ==
    IF HasField(structure, k)
      THEN structure[CHOOSE i \in 1..Len(structure) : structure[i].k = k].v
      ELSE <<>>

\* appendValue(m, key, val), lines 253-257
appendValue(m, key, val) ==
    IF HasField(m, key)
      THEN [i \in 1..Len(m) |->
              IF m[i].k = key THEN Field(key, Append(m[i].v, val)) ELSE m[i]]
      ELSE Append(m, Field(key, <<val>>))

\* The mutated index build of claim C10: the assertion is dropped, a later
\* structure replaces an earlier one.
MakeKeyToStructureMap_Overwrite(es) ==
    [raises |-> FALSE,
     map |-> [k \in {es[i].key : i \in 1..Len(es)} |->
                es[CHOOSE i \in 1..Len(es) :
                     /\ es[i].key = k
                     /\ \A j \in 1..Len(es) : es[j].key = k => j <= i].struct]]

\* _makeKeyToStructureMap: raises (AssertionError) at the first entry whose
\* identifier is already mapped to an unequal structure.
MapEntry(prev, e) ==
    IF prev.raises THEN prev
    ELSE IF e.key \in DOMAIN prev.map /\ e.struct # prev.map[e.key]
      THEN [raises |-> TRUE, map |-> prev.map]
    ELSE [raises |-> FALSE,
          map |-> [k \in DOMAIN prev.map \cup {e.key} |->
                     IF k = e.key THEN e.struct ELSE prev.map[k]]]

MakeKeyToStructureMap(es) ==
    LET F[i \in 0..Len(es)] ==
          IF i = 0 THEN [raises |-> FALSE, map |-> <<>>]
          ELSE The({MapEntry(prev, e) : prev \in {F[i-1]}, e \in {es[i]}})
    IN F[Len(es)]

-----------------------------------------------------------------------------
\* The line parser.  A log line is a sequence of tokens: "RuleKey" is the tag
\* with the white space RULE_LINE_REGEX wants around it, "=" the equals sign,
\* "):" the delimiter of serialized entries, "key(" the prefix of a key
\* marker, ")" a closing parenthesis; every other token is opaque text.  An
\* identifier, a field name and a value are token sequences.

TAG == "RuleKey"
NoneKey == <<"<None>">>    \* last_key = None, line 251

\* RULE_LINE_REGEX.match(line) is not None
RuleLineMatches(line) == \E i \in 1..Len(line) : line[i] = TAG
\* match.groups()[1]: the leading .* is greedy, the text after the last tag
RuleLineGroup(line) ==
    LET p == CHOOSE i \in 1..Len(line) :
                 line[i] = TAG /\ \A j \in 1..Len(line) : line[j] = TAG => j <= i
    IN SubSeq(line, p + 1, Len(line))

\* structure.split('):')
RECURSIVE SplitEntries(_, _)
SplitEntries(toks, cur) ==
    IF toks = <<>> THEN <<cur>>
    ELSE IF Head(toks) = "):" THEN <<cur>> \o SplitEntries(Tail(toks), <<>>)
    ELSE SplitEntries(Tail(toks), Append(cur, Head(toks)))

\* [e + ')' for e in structure_entries if len(e) > 0]
RECURSIVE CloseEntries(_)
CloseEntries(es) ==
    IF es = <<>> THEN <<>>
    ELSE (IF Len(Head(es)) > 0 THEN <<Append(Head(es), ")")>> ELSE <<>>)
         \o CloseEntries(Tail(es))

\* for e in reversed(structure_entries): lines 259-265
WalkEntry(prev, e) ==
    IF Head(e) = "key("
      THEN [last_key |-> SubSeq(e, 2, Len(e) - 1), map |-> prev.map]
      ELSE [last_key |-> prev.last_key,
            map |-> appendValue(prev.map, prev.last_key, e)]

WalkEntries(es) ==
    LET n == Len(es)
        F[i \in 0..n] ==
          IF i = 0 THEN [last_key |-> NoneKey, map |-> <<>>]
          ELSE The({WalkEntry(prev, e) : prev \in {F[i-1]}, e \in {es[n + 1 - i]}})
    IN F[n].map

HasEquals(toks) == \E i \in 1..Len(toks) : toks[i] = "="
FirstEquals(toks) ==
    CHOOSE i \in 1..Len(toks) : toks[i] = "=" /\ \A j \in 1..(i-1) : toks[j] # "="

\* _parseRuleKeyLine(match): raises (ValueError) when rule_key.split('=', 1)
\* yields one part, line 244.
ParseRuleKeyLine(rule_key) ==
    IF rule_key # <<>> /\ rule_key[Len(rule_key)] = "="
      THEN [raises |-> FALSE,
            entry |-> Entry(SubSeq(rule_key, 1, Len(rule_key) - 1), <<>>)]
    ELSE IF ~HasEquals(rule_key)
      THEN [raises |-> TRUE, entry |-> Entry(<<>>, <<>>)]
    ELSE LET p == FirstEquals(rule_key)
             top_key == SubSeq(rule_key, 1, p - 1)
             structure == SubSeq(rule_key, p + 1, Len(rule_key))
         IN [raises |-> FALSE,
             entry |-> Entry(top_key,
                             WalkEntries(CloseEntries(SplitEntries(structure, <<>>))))]

\* The lines a log file is made of.
SampleLines ==
    { <<"INFO", "building">>,
      <<"RuleKey", "k1", "=">>,
      <<"RuleKey", "k1", "=", "v1", "):", "key(", "f", "):">>,
      <<"RuleKey", "k1", "=", "v2", "):", "key(", "f", "):">>,
      <<"RuleKey", "k2", "=", "v1", "):", "v2", "):", "key(", "f", "):",
        "v1", "):", "key(", "g", "):">>,
      <<"x", "RuleKey", "k1", "RuleKey", "k2", "=", "v1", "):">>,
      <<"RuleKey", "cache", "hit">> }

-----------------------------------------------------------------------------
\* RuleKeyStructureInfo on the integer codes: names, references, lookups.

\* _nameFromStruct: the first value of '.name', the string("...") wrapper
\* stripped (name[8:-2]), when the structure has '.name' and '.type'.
nameFromStruct(structure) ==
    IF HasField(structure, ".name") /\ HasField(structure, ".type")
      THEN LET name == Get(structure, ".name")[1]
           IN IF name > StrBase /\ name < AnnMod THEN name - StrBase ELSE name
      ELSE None

\* _makeNameToKeyMap: a later entry of the same name replaces an earlier one
MakeNameToKeyMap(es) ==
    LET named == {i \in 1..Len(es) : nameFromStruct(es[i].struct) # None}
    IN [n \in {nameFromStruct(es[i].struct) : i \in named} |->
          es[CHOOSE i \in named :
               /\ nameFromStruct(es[i].struct) = n
               /\ \A j \in named : nameFromStruct(es[j].struct) = n => j <= i].key]

\* RuleKeyStructureInfo.__init__ after parsing, lines 163-167
MakeInfo(es) ==
    [entries |-> es,
     key_to_struct |-> MakeKeyToStructureMap(es).map,
     name_to_key |-> MakeNameToKeyMap(es)]

\* getByKey(key) is not None
HasKey(info, key) == key \in DOMAIN info.key_to_struct
getByKey(info, key) == info.key_to_struct[key]
getKeyForName(info, name) ==
    IF name \in DOMAIN info.name_to_key THEN info.name_to_key[name] ELSE None
getNameForKey(info, key) ==
    IF HasKey(info, key) THEN nameFromStruct(getByKey(info, key)) ELSE None

\* getAllNames
getAllNames(info) ==
    LET es == info.entries
        F[i \in 0..Len(es)] ==
          IF i = 0 THEN <<>>
          ELSE IF getNameForKey(info, es[i].key) # None
            THEN Append(F[i-1], getNameForKey(info, es[i].key))
            ELSE F[i-1]
    IN F[Len(es)]

\* _extractRuleKeyRef
extractRuleKeyRef(value) == IF IsRefCode(value) THEN value - RefBase ELSE None
RefTo(k) == RefBase + k
\* getRuleKeyRefs
getRuleKeyRefs(values) ==
    [i \in 1..Len(values) |-> <<values[i], extractRuleKeyRef(values[i])>>]

-----------------------------------------------------------------------------
\* diffInternal: the dependency alignment pass, lines 361-379.

\* The mutated swap of claim C7: only one of the two positions is written.
swap_entries_in_list_HalfSwap(l, i, j) ==
    [k \in 1..Len(l) |-> IF k = i THEN l[j] ELSE l[k]]

\* swap_entries_in_list
swap_entries_in_list(l, i, j) ==
    [k \in 1..Len(l) |-> IF k = i THEN l[j] ELSE IF k = j THEN l[i] ELSE l[k]]

\* one turn of the loop of line 363: prev is the right list so far and
\* whether a swap was made
AlignAt(prev, left_idx, left_name, rinfo) ==
    IF left_name = None \/ left_idx > Len(prev.right) THEN prev
    ELSE \* the first j whose name is left_name, lines 367-371
      The({ IF found = {} THEN prev
            ELSE The({ IF right_idx # left_idx
                         THEN [right |-> swap_entries_in_list(prev.right,
                                                              right_idx, left_idx),
                               did |-> TRUE]
                         ELSE prev :
                       right_idx \in {CHOOSE j \in found : \A k \in found : j <= k} }) :
            found \in { {j \in 1..Len(prev.right) :
                            getNameForKey(rinfo, prev.right[j][2]) = left_name} } })

AlignDeps(left_with_keys, right_with_keys, linfo, rinfo) ==
    LET F[left_idx \in 0..Len(left_with_keys)] ==
          IF left_idx = 0 THEN [right |-> right_with_keys, did |-> FALSE]
          ELSE The({ AlignAt(prev, left_idx, left_name, rinfo) :
                     prev \in {F[left_idx - 1]},
                     left_name \in {getNameForKey(linfo,
                                                  left_with_keys[left_idx][2])} })
    IN F[Len(left_with_keys)]

\* key.endswith(('Deps', 'deps')) on the field names of the model
DepsKeys == {"deps"}
\* the string order of the field names of the model
KeyRank(k) ==
    CASE k = ".name" -> 1 [] k = ".type" -> 2 [] k = "deps" -> 3
      [] k = "srcs" -> 4 [] OTHER -> 5

-----------------------------------------------------------------------------
\* diffInternal: the comparison of one field, lines 381-415.

\* A label: a HumanName followed by '->' + field name steps.
Label(name, path) == [name |-> name, path |-> path]
Ref(label, lk, rk) == [label |-> label, pair |-> <<lk, rk>>]

\* one turn of the loop of line 382 on the pair (l, r); prev is what the
\* turns before it left: the changed reference pairs, the values appended to
\* the field's KeyValueDiff, and whether line 401 raised
ComparePair(prev, label, key, linfo, rinfo, l, r) ==
    LET left_v == l[1]
        left_key == l[2]
        right_v == r[1]
        right_key == r[2]
        left_name == IF left_key # None
                       THEN getNameForKey(linfo, left_key) ELSE None
        right_name == IF right_key # None
                        THEN getNameForKey(rinfo, right_key) ELSE None
        both == left_key # None /\ right_key # None
        annotated ==
          [prev EXCEPT
             !.left = Append(@, IF left_name # None
                                  THEN Annotate(left_name, left_v)
                                  ELSE left_v),
             !.right = Append(@, IF right_name # None
                                   THEN Annotate(right_name, right_v)
                                   ELSE right_v)]
    IN IF prev.raises \/ left_v = right_v THEN prev
       ELSE IF both /\ left_name = right_name /\ left_name # None
         THEN [prev EXCEPT !.changed =
                 @ \cup {Ref(Label(left_name, <<>>), left_key, right_key)}]
       ELSE IF both /\ left_name = None /\ right_name = None
         THEN \* getByKey(...).keys() of a missing record: AttributeError
              IF ~HasKey(linfo, left_key) \/ ~HasKey(rinfo, right_key)
                THEN [prev EXCEPT !.raises = TRUE]
              ELSE IF Keys(getByKey(linfo, left_key))
                        = Keys(getByKey(rinfo, right_key))
                THEN [prev EXCEPT !.changed =
                        @ \cup {Ref(Label(label.name, Append(label.path, key)),
                                    left_key, right_key)}]
              ELSE annotated
       ELSE annotated

\* map(None, left_with_keys, right_with_keys) and l or ('<missing>', None)
Padded(with_keys, i) ==
    IF i <= Len(with_keys) THEN with_keys[i] ELSE <<MISSING, None>>

CompareField(label, key, linfo, rinfo, left_with_keys, right_with_keys) ==
    LET n == Max(Len(left_with_keys), Len(right_with_keys))
        F[i \in 0..n] ==
          IF i = 0
            THEN [raises |-> FALSE, changed |-> {}, left |-> <<>>, right |-> <<>>]
          ELSE The({ ComparePair(prev, label, key, linfo, rinfo, l, r) :
                     prev \in {F[i-1]},
                     l \in {Padded(left_with_keys, i)},
                     r \in {Padded(right_with_keys, i)} })
    IN F[n]

-----------------------------------------------------------------------------
\* diffInternal: the report and the changed reference pairs, lines 336-439.

\* A report line: the message, the field it names, the labels and the values
\* it prints.
RLine(kind, key, labels, l, r) ==
    [kind |-> kind, key |-> key, labels |-> labels, left |-> l, right |-> r]
Indented(d) == RLine(d.kind, "", <<>>, d.left, d.right)
DontKnowWhy(name) ==
    RLine("I don't know why RuleKeys do not match", "", <<Label(name, <<>>)>>,
          <<>>, <<>>)
SkippingRight ==
    RLine("Skipping {} because it is missingfrom the right log.", "", <<>>,
          <<>>, <<>>)

RECURSIVE SortedKeys(_)
SortedKeys(S) ==
    IF S = {} THEN <<>>
    ELSE LET m == CHOOSE x \in S : \A y \in S : KeyRank(x) <= KeyRank(y)
         IN <<m>> \o SortedKeys(S \ {m})

\* the string order of two '->'-joined labels
RECURSIVE PathLess(_, _)
PathLess(p, q) ==
    IF p = <<>> THEN q # <<>>
    ELSE IF q = <<>> THEN FALSE
    ELSE IF Head(p) = Head(q) THEN PathLess(Tail(p), Tail(q))
    ELSE KeyRank(Head(p)) < KeyRank(Head(q))
LabelLess(a, b) ==
    a.name < b.name \/ (a.name = b.name /\ PathLess(a.path, b.path))
\* the tuple order of (label, (left_key, right_key))
RefLess(a, b) ==
    \/ LabelLess(a.label, b.label)
    \/ /\ a.label = b.label
       /\ \/ a.pair[1] < b.pair[1]
          \/ a.pair[1] = b.pair[1] /\ a.pair[2] < b.pair[2]

RECURSIVE SortedRefs(_)
SortedRefs(S) ==
    IF S = {} THEN <<>>
    ELSE LET m == CHOOSE x \in S : \A y \in S \ {x} : RefLess(x, y)
         IN <<m>> \o SortedRefs(S \ {m})

RECURSIVE Flatten(_)
Flatten(ss) == IF ss = <<>> THEN <<>> ELSE Head(ss) \o Flatten(Tail(ss))

\* What diffInternal finds in one field: whether the alignment pass swapped,
\* and what the comparison of the field's values left.
FieldResult(label, key, left_s, linfo, right_s, rinfo) ==
    The({ [key |-> key, did |-> al.did,
           cmp |-> CompareField(label, key, linfo, rinfo, left_with_keys, al.right)] :
          left_with_keys \in {getRuleKeyRefs(Get(left_s, key))},
          al \in { IF key \in DepsKeys
                     THEN AlignDeps(getRuleKeyRefs(Get(left_s, key)),
                                    getRuleKeyRefs(Get(right_s, key)), linfo, rinfo)
                     ELSE [right |-> getRuleKeyRefs(Get(right_s, key)),
                           did |-> FALSE] } })

\* lines 417-420: the header of a field and its differ's report, indented
ValueLines(f) ==
    <<RLine("field", f.key, <<>>, <<>>, <<>>)>>
    \o The({ [i \in 1..Len(d) |-> Indented(d[i])] :
              d \in {KeyValueDiff_diff(f.cmp.left, f.cmp.right)} })

\* The report of diffInternal from the results fs of its fields, keys being
\* the field names in the order they were walked.
Report(label, keys, fs, verb) ==
    LET of(key) == CHOOSE f \in fs : f.key = key
        changed == UNION {f.cmp.changed : f \in fs}
        align_lines ==
            Flatten([i \in 1..Len(keys) |->
                IF of(keys[i]).did
                  THEN <<RLine("order of deps was name-aligned", keys[i],
                               <<>>, <<>>, <<>>)>>
                  ELSE <<>>])
        with_values == SortedKeys({f.key : f \in {x \in fs : x.cmp.left # <<>>}})
        value_lines ==
            Flatten([i \in 1..Len(with_values) |-> ValueLines(of(with_values[i]))])
        \* the loop variable left over by the last loop that ran
        last_key == IF with_values # <<>> THEN with_values[Len(with_values)]
                    ELSE keys[Len(keys)]
        verbose_lines ==
            IF changed # {} /\ verb
              THEN <<RLine("changed because of", last_key,
                           The({ [i \in 1..Len(refs) |-> refs[i].label] :
                                 refs \in {SortedRefs(changed)} }),
                           <<>>, <<>>)>>
              ELSE <<>>
        report == align_lines \o value_lines \o verbose_lines
    IN IF report # <<>>
         THEN <<RLine("Change details for", "", <<label>>, <<>>, <<>>)>> \o report
         ELSE report

\* The field names of the model's structures, and for every set of them the
\* orders in which "for key in keys" (line 352) may walk it: keys is a set of
\* strings, whose iteration order follows the strings' hashes and is any
\* order of the set.
FieldNames == {".name", ".type", "deps", "srcs"}
Walks ==
    [S \in SUBSET FieldNames |->
       {w \in [1..Cardinality(S) -> S] :
          \A i, j \in 1..Cardinality(S) : i # j => w[i] # w[j]}]
\* keys = set(left_s.keys()).union(set(right_s.keys())), line 345
KeySet(left_s, right_s) == Range(Keys(left_s)) \cup Range(Keys(right_s))

\* diffInternal: the results it may return, one for every order in which the
\* fields may be walked; raises stands for the AttributeError of line 401.
\* No field of the model's structures has the name None (the guard of line
\* 353) and check_paths is False, as diff and diffAll are called by main
\* (lines 432-434).
diffInternal(label, left_s, linfo, right_s, rinfo, verb) ==
    The({ { [raises |-> \E f \in fs : f.cmp.raises,
             report |-> Report(label, keys, fs, verb),
             changed |-> UNION {f.cmp.changed : f \in fs}] :
            keys \in Walks[KeySet(left_s, right_s)] } :
          fs \in { {FieldResult(label, key, left_s, linfo, right_s, rinfo) :
                      key \in KeySet(left_s, right_s)} } })

\* diffAndReturnSeen, lines 461-466: the pairs not seen yet are marked seen
\* and queued, in sorted order.
EnqueueOne(prev, e) ==
    IF e.pair \in prev.seen THEN prev
    ELSE [queue |-> Append(prev.queue, e), seen |-> prev.seen \cup {e.pair}]

Enqueue(refs, q, seen) ==
    LET F[i \in 0..Len(refs)] ==
          IF i = 0 THEN [queue |-> q, seen |-> seen]
          ELSE The({EnqueueOne(prev, e) : prev \in {F[i-1]}, e \in {refs[i]}})
    IN F[Len(refs)]

-----------------------------------------------------------------------------
\* The two logs of the traversal specification: NObj objects a side, object i
\* logged under identifier i on the left and under i or NObj + i on the right.

NextOf(i) == (i % NObj) + 1
PrevOf(i) == ((i + NObj - 2) % NObj) + 1
DanglingLeft == 2 * NObj + 1
DanglingRight == 2 * NObj + 2

\* The reference lists an object may carry: none, the next object, the next
\* object twice, the next and the previous one, an identifier that no line of
\* the log describes.
DepsMenu == {"none", "next", "twice", "both", "dangling"}
DepsOf(choice, i, id, dangling) ==
    CASE choice = "none" -> <<>>
      [] choice = "next" -> <<RefTo(id[NextOf(i)])>>
      [] choice = "twice" -> <<RefTo(id[NextOf(i)]), RefTo(id[NextOf(i)])>>
      [] choice = "both" -> <<RefTo(id[NextOf(i)]), RefTo(id[PrevOf(i)])>>
      [] OTHER -> <<RefTo(dangling)>>

Reverse(s) == [i \in 1..Len(s) |-> s[Len(s) + 1 - i]]

\* How the objects are named: all differently, the last one unnamed, the
\* first two alike.
NameSchemes == {"distinct", "lastUnnamed", "duplicate"}
NameOf(scheme, i) ==
    CASE scheme = "distinct" -> 64 + i
      [] scheme = "lastUnnamed" -> IF i = NObj THEN None ELSE 64 + i
      [] OTHER -> IF i = 1 THEN 66 ELSE 64 + i
SchemePairs ==
    { <<"distinct", "distinct">>, <<"lastUnnamed", "lastUnnamed">>,
      <<"duplicate", "duplicate">>, <<"distinct", "lastUnnamed">> }

\* The structure logged for an object: '.name' and '.type' when it is named,
\* 'deps' when it has references, 'srcs'.
ObjStruct(name, deps, src) ==
    (IF name # None
       THEN <<Field(".name", <<StrBase + name>>), Field(".type", <<116>>)>>
       ELSE <<>>)
    \o (IF deps # <<>> THEN <<Field("deps", deps)>> ELSE <<>>)
    \o <<Field("srcs", <<src>>)>>

LeftEntries(g, scheme) ==
    [i \in 1..NObj |->
        Entry(i, ObjStruct(NameOf(scheme, i),
                           DepsOf(g[i], i, [j \in 1..NObj |-> j], DanglingLeft), 97))]

RightShapes == {"same", "reversed", "dropLast", "noDeps1"}
RightEntries(g, scheme, shape, shifted, changed) ==
    LET id == [j \in 1..NObj |-> IF j <= shifted THEN NObj + j ELSE j]
        deps(i) == LET d == DepsOf(g[i], i, id, DanglingRight)
                   IN IF shape = "reversed" THEN Reverse(d)
                      ELSE IF shape = "noDeps1" /\ i = 1 THEN <<>>
                      ELSE d
        n == IF shape = "dropLast" THEN NObj - 1 ELSE NObj
    IN [i \in 1..n |->
          Entry(id[i], ObjStruct(NameOf(scheme, i), deps(i),
                                 IF i \in changed THEN 98 ELSE 97))]

DifferIdle ==
    d_left = <<>> /\ d_right = <<>> /\ d_out = <<>> /\ d_done = FALSE
LoadIdle ==
    file = <<>> /\ ld_pos = 1 /\ entries = <<>> /\ key_to_struct = <<>>
    /\ ld_pc = "idle"
AlignIdle ==
    al_left = <<>> /\ al_right = <<>> /\ al_out = <<>> /\ al_pc = "idle"
TravIdle ==
    /\ pc = "idle" /\ mode = "none" /\ cur_name = None
    /\ queue = <<>> /\ seen_keys = {} /\ visited_keys = <<>> /\ result = <<>>
    /\ trav_lines = 0 /\ seen_left_names = <<>> /\ all_results = <<>>
    /\ compared = <<>> /\ started = {}
InfoIdle ==
    left_info = MakeInfo(<<>>) /\ right_info = MakeInfo(<<>>) /\ verbose = FALSE

Init ==
    /\ \E g \in [1..NObj -> DepsMenu], sp \in SchemePairs, shape \in RightShapes,
          shifted \in {NObj - 1, NObj}, changed \in {{}, {NObj}, 1..NObj} :
          /\ left_info = MakeInfo(LeftEntries(g, sp[1]))
          /\ right_info = MakeInfo(RightEntries(g, sp[2], shape, shifted, changed))
          \* --verbose is tried on the logs of distinct names whose right side
          \* has the left side's shape and sources
          /\ verbose \in (IF sp = <<"distinct", "distinct">> /\ shape = "same"
                              /\ changed = {}
                           THEN BOOLEAN ELSE {FALSE})
    /\ TravIdle /\ DifferIdle /\ LoadIdle /\ AlignIdle

-----------------------------------------------------------------------------
\* diff(name), lines 472-486, up to the call of diffAndReturnSeen.
CallDiff(name) ==
    /\ pc = "idle"
    /\ mode' = "diff"
    /\ cur_name' = name
    /\ IF getKeyForName(left_info, name) = None
          \/ getKeyForName(right_info, name) = None
         THEN /\ pc' = "KeyError"
              /\ UNCHANGED <<queue, started>>
         ELSE /\ pc' = "bfs"
              /\ queue' = <<Ref(Label(name, <<>>), getKeyForName(left_info, name),
                                getKeyForName(right_info, name))>>
              /\ started' = {name}
    /\ UNCHANGED <<seen_keys, visited_keys, result, trav_lines, seen_left_names,
                   all_results, compared>>
    /\ UNCHANGED <<differVars, loadVars, alignVars, infoVars>>

\* collections.OrderedDict([(k, True) for k in names]): each name once, at
\* the place of its first occurrence
RECURSIVE OrderedKeys(_, _)
OrderedKeys(names, acc) ==
    IF names = <<>> THEN acc
    ELSE OrderedKeys(Tail(names),
                     IF Head(names) \in Range(acc) THEN acc
                     ELSE Append(acc, Head(names)))

\* diffAll, lines 489-495
CallDiffAll ==
    /\ pc = "idle"
    /\ mode' = "all"
    /\ pc' = "all"
    /\ seen_left_names' = OrderedKeys(getAllNames(left_info), <<>>)
    /\ UNCHANGED <<cur_name, queue, seen_keys, visited_keys, result, trav_lines,
                   all_results, compared, started>>
    /\ UNCHANGED <<differVars, loadVars, alignVars, infoVars>>

\* diffAll, one turn of the loop of lines 496-519: popitem() takes the last
\* name; the loop ends when no name is left.
DiffAllNext ==
    /\ pc = "all"
    /\ IF seen_left_names = <<>>
         THEN /\ pc' = "returned"
              /\ UNCHANGED <<cur_name, queue, visited_keys, result, all_results,
                             seen_left_names, started>>
         ELSE LET name == seen_left_names[Len(seen_left_names)]
                  left_key == getKeyForName(left_info, name)
                  right_key == getKeyForName(right_info, name)
              IN /\ seen_left_names' =
                        SubSeq(seen_left_names, 1, Len(seen_left_names) - 1)
                 /\ cur_name' = name
                 /\ IF right_key = None
                      THEN /\ all_results' = Append(all_results, SkippingRight)
                           /\ UNCHANGED <<pc, queue, visited_keys, result, started>>
                    ELSE IF left_key = right_key
                      THEN UNCHANGED <<pc, queue, visited_keys, result,
                                       all_results, started>>
                    ELSE /\ pc' = "bfs"
                         /\ queue' = <<Ref(Label(name, <<>>), left_key, right_key)>>
                         /\ visited_keys' = <<>>
                         /\ result' = <<>>
                         /\ started' = started \cup {name}
                         /\ UNCHANGED all_results
    /\ UNCHANGED <<mode, seen_keys, trav_lines, compared>>
    /\ UNCHANGED <<differVars, loadVars, alignVars, infoVars>>

\* diffAndReturnSeen, one turn of the loop of lines 447-468.
BfsStep ==
    /\ pc = "bfs"
    /\ queue # <<>>
    /\ LET p == Head(queue)
           left_key == p.pair[1]
           right_key == p.pair[2]
       IN /\ visited_keys' = Append(visited_keys, p.pair)
          /\ compared' = Append(compared, p.pair)
          /\ IF ~HasKey(left_info, left_key) \/ ~HasKey(right_info, right_key)
               THEN \* left_s.keys() of a missing record, line 345
                    /\ pc' = "AttributeError"
                    /\ queue' = Tail(queue)
                    /\ UNCHANGED <<seen_keys, result>>
               ELSE \E r \in diffInternal(p.label, getByKey(left_info, left_key),
                                          left_info,
                                          getByKey(right_info, right_key),
                                          right_info, verbose) :
                      IF r.raises
                        THEN /\ pc' = "AttributeError"
                             /\ queue' = Tail(queue)
                             /\ UNCHANGED <<seen_keys, result>>
                        ELSE \E q \in {Enqueue(SortedRefs(r.changed), Tail(queue),
                                               seen_keys)} :
                               /\ queue' = q.queue
                               /\ seen_keys' = q.seen
                               /\ result' = result \o r.report
                               /\ UNCHANGED pc
    /\ UNCHANGED <<mode, cur_name, trav_lines, seen_left_names, all_results, started>>
    /\ UNCHANGED <<differVars, loadVars, alignVars, infoVars>>

\* lines 483-485 (diff) and 520-522 (diffAll): the "I don't know why" line
FallbackResult(res, name, left_key, right_key) ==
    IF res = <<>> /\ left_key # right_key THEN <<DontKnowWhy(name)>> ELSE res

\* seen_left_names.pop(left_name, False) for every visited pair, lines 525-527
PopVisited(names, visited) ==
    Filter(names, {getNameForKey(left_info, visited[i][1]) : i \in 1..Len(visited)})

\* The return of diffAndReturnSeen (line 469) and what its caller does with
\* the result: lines 483-486 in diff, lines 520-527 in diffAll.
BfsReturn ==
    /\ pc = "bfs"
    /\ queue = <<>>
    /\ LET left_key == getKeyForName(left_info, cur_name)
           right_key == getKeyForName(right_info, cur_name)
           single_result == FallbackResult(result, cur_name, left_key, right_key)
       IN /\ trav_lines' = Len(result)
          /\ IF mode = "diff"
               THEN /\ result' = single_result
                    /\ pc' = "returned"
                    /\ UNCHANGED <<all_results, seen_left_names>>
               ELSE /\ all_results' = all_results \o single_result
                    /\ seen_left_names' = PopVisited(seen_left_names, visited_keys)
                    /\ pc' = "all"
                    /\ UNCHANGED result
    /\ UNCHANGED <<mode, cur_name, queue, seen_keys, visited_keys, compared, started>>
    /\ UNCHANGED <<differVars, loadVars, alignVars, infoVars>>

Next ==
    \/ \E name \in 65..(64 + NObj) : CallDiff(name)
    \/ CallDiffAll
    \/ DiffAllNext
    \/ BfsStep
    \/ BfsReturn

Spec == Init /\ [][Next]_vars

\* The traversals under fairness: a loop runs on as long as it has a turn to
\* take (the program is one thread that nothing suspends).  The logs are those
\* of Init in which every object is named, by the same name on both sides, and
\* the two sides differ in their identifiers only.
TermInit ==
    /\ \E g \in [1..NObj -> DepsMenu] :
          /\ left_info = MakeInfo(LeftEntries(g, "distinct"))
          /\ right_info = MakeInfo(RightEntries(g, "distinct", "same", NObj, {}))
    /\ verbose = FALSE
    /\ TravIdle /\ DifferIdle /\ LoadIdle /\ AlignIdle
FairSpec == TermInit /\ [][Next]_vars /\ WF_vars(Next)

-----------------------------------------------------------------------------
\* The KeyValueDiff object: append() and diff().

DifferValues == {65, 66, 97, 98}      \* 'A', 'B', 'a', 'b'

DifferInit ==
    /\ DifferIdle
    /\ InfoIdle /\ TravIdle /\ LoadIdle /\ AlignIdle

\* append(left, right), lines 84-86
DAppend(l, r) ==
    /\ Len(d_left) < MaxLen
    /\ d_left' = Append(d_left, l)
    /\ d_right' = Append(d_right, r)
    /\ d_out' = <<>>
    /\ d_done' = FALSE
    /\ UNCHANGED <<loadVars, alignVars, infoVars, travVars>>

\* diff(), lines 98-152
DDiff ==
    /\ d_out' = KeyValueDiff_diff(d_left, d_right)
    /\ d_done' = TRUE
    /\ UNCHANGED <<d_left, d_right>>
    /\ UNCHANGED <<loadVars, alignVars, infoVars, travVars>>

DifferNext ==
    \/ \E l \in DifferValues, r \in DifferValues : DAppend(l, r)
    \/ DDiff

SpecDiffer == DifferInit /\ [][DifferNext]_vars

-----------------------------------------------------------------------------
\* Loading a log: _parseLogFile and the index built from its entries.

LoadInit ==
    /\ file \in SeqsUpTo(SampleLines, MaxLines)
    /\ ld_pos = 1 /\ entries = <<>> /\ key_to_struct = <<>> /\ ld_pc = "parsing"
    /\ InfoIdle /\ TravIdle /\ DifferIdle /\ AlignIdle

\* _parseLogFile, one turn of the loop of lines 273-282
ParseLine ==
    /\ ld_pc = "parsing"
    /\ ld_pos <= Len(file)
    /\ ld_pos' = ld_pos + 1
    /\ IF ~RuleLineMatches(file[ld_pos])
         THEN UNCHANGED <<entries, ld_pc>>
         ELSE \E parsed \in {ParseRuleKeyLine(RuleLineGroup(file[ld_pos]))} :
                IF parsed.raises
                  THEN ld_pc' = "ValueError" /\ UNCHANGED entries
                  ELSE entries' = Append(entries, parsed.entry) /\ UNCHANGED ld_pc
    /\ UNCHANGED <<file, key_to_struct>>
    /\ UNCHANGED <<differVars, alignVars, infoVars, travVars>>

\* __init__, lines 163-165: the entries are returned and the index is built
BuildIndex ==
    /\ ld_pc = "parsing"
    /\ ld_pos > Len(file)
    /\ \E built \in {MakeKeyToStructureMap(entries)} :
          IF built.raises
            THEN ld_pc' = "AssertionError" /\ UNCHANGED key_to_struct
            ELSE ld_pc' = "loaded" /\ key_to_struct' = built.map
    /\ UNCHANGED <<file, ld_pos, entries>>
    /\ UNCHANGED <<differVars, alignVars, infoVars, travVars>>

LoadNext == ParseLine \/ BuildIndex

SpecLoad == LoadInit /\ [][LoadNext]_vars

-----------------------------------------------------------------------------
\* The alignment pass on its own: two logs of three named objects (X, Y, Z
\* under identifiers 1..3 on the left and 5..7 on the right) and an unnamed
\* one (4 and 8), and two lists of references to them.

AlignLeftInfo ==
    MakeInfo(<<Entry(1, ObjStruct(88, <<>>, 97)), Entry(2, ObjStruct(89, <<>>, 97)),
               Entry(3, ObjStruct(90, <<>>, 97)), Entry(4, ObjStruct(None, <<>>, 97))>>)
AlignRightInfo ==
    MakeInfo(<<Entry(5, ObjStruct(88, <<>>, 97)), Entry(6, ObjStruct(89, <<>>, 97)),
               Entry(7, ObjStruct(90, <<>>, 97)), Entry(8, ObjStruct(None, <<>>, 97))>>)

AlignInit ==
    /\ left_info = AlignLeftInfo
    /\ right_info = AlignRightInfo
    /\ verbose = FALSE
    /\ al_left \in SeqsUpTo({RefTo(k) : k \in DOMAIN AlignLeftInfo.key_to_struct},
                             MaxDeps)
    /\ al_right \in SeqsUpTo({RefTo(k) : k \in DOMAIN AlignRightInfo.key_to_struct},
                              MaxDeps)
    /\ al_out = <<>> /\ al_pc = "values"
    /\ TravIdle /\ DifferIdle /\ LoadIdle

\* diffInternal on a 'deps' field, lines 358-376
Align ==
    /\ al_pc = "values"
    /\ al_out' = AlignDeps(getRuleKeyRefs(al_left), getRuleKeyRefs(al_right),
                           left_info, right_info).right
    /\ al_pc' = "aligned"
    /\ UNCHANGED <<al_left, al_right>>
    /\ UNCHANGED <<differVars, loadVars, infoVars, travVars>>

AlignNext == Align

SpecAlign == AlignInit /\ [][AlignNext]_vars

-----------------------------------------------------------------------------
\* Claims on the traversals.

NoRepeats(s) == \A i, j \in 1..Len(s) : i # j => s[i] # s[j]
StartPair(name) ==
    <<getKeyForName(left_info, name), getKeyForName(right_info, name)>>
\* name is in both logs, under two different identifiers
CommonAndChanged(name) ==
    /\ getKeyForName(left_info, name) # None
    /\ getKeyForName(right_info, name) # None
    /\ getKeyForName(left_info, name) # getKeyForName(right_info, name)

\* C1: in one run of diffAndReturnSeen started by diff with one starting pair
\* and an empty seen set, no pair of identifiers is passed to diffInternal
\* twice, the starting pair included.
C1_EachPairComparedOnce == mode = "diff" => NoRepeats(compared)

\* C2: diffAndReturnSeen terminates: once its loop runs, its queue is
\* eventually found empty by the loop's test.
C2_QueueEventuallyEmpty == (pc = "bfs") ~> (pc = "bfs" /\ queue = <<>>)

\* C3: in one run of diffAll no pair of identifiers is compared twice, whether
\* it was the starting pair of an earlier name or found in an earlier
\* traversal.
C3_DiffAllComparesPairOnce == mode = "all" => NoRepeats(compared)

\* C4: in diffAll every name that is in both logs under different identifiers
\* has its pair compared by the time diffAll returns, and such a name leaves
\* the remaining names without being a starting name only if its pair was
\* compared.
C4_EveryCommonNameDiffed ==
    mode = "all" =>
      \A name \in Range(getAllNames(left_info)) :
         CommonAndChanged(name) =>
            /\ pc = "returned" => StartPair(name) \in Range(compared)
            /\ \/ name \in Range(seen_left_names)
               \/ name \in started
               \/ StartPair(name) \in Range(compared)

\* C6: diffInternal returns a report for every pair of structures of the two
\* indexes, also when a reference names an identifier without a record.
C6_CompareObjectsNeverFails == pc # "AttributeError"

\* C9: diff(name) holds the "I don't know why" line exactly when the traversal
\* produced no line and the two identifiers differ; two identical structures
\* under different identifiers give that line alone; the result is never
\* empty when the identifiers differ.
C9_FallbackIffUnexplained ==
    (mode = "diff" /\ pc = "returned") =>
      LET left_key == StartPair(cur_name)[1]
          right_key == StartPair(cur_name)[2]
      IN /\ (DontKnowWhy(cur_name) \in Range(result))
              <=> (trav_lines = 0 /\ left_key # right_key)
         /\ (left_key # right_key
               /\ getByKey(left_info, left_key) = getByKey(right_info, right_key))
              => result = <<DontKnowWhy(cur_name)>>
         /\ left_key # right_key => result # <<>>

-----------------------------------------------------------------------------
\* Claims on the loader.

Parses(line) ==
    RuleLineMatches(line) /\ ~ParseRuleKeyLine(RuleLineGroup(line)).raises
Conflict(es) ==
    \E i, j \in 1..Len(es) : es[i].key = es[j].key /\ es[i].struct # es[j].struct

\* C5: no line fails the load by its content: a line of neither shape, or one
\* that carries the tag but no identifier=structure payload, gives no entry
\* and no error, and every other line gives its entry.
C5_NoLineFailsTheLoad ==
    /\ ld_pc # "ValueError"
    /\ ld_pc = "parsing" =>
         Len(entries) = Cardinality({i \in 1..(ld_pos - 1) : Parses(file[i])})

\* C10: the build of the index fails exactly when an identifier occurs in two
\* entries of unequal structures; when it succeeds the index maps every
\* entry's identifier to that entry's structure.
C10_BuildFailsIffConflict ==
    /\ ld_pc = "AssertionError" => Conflict(entries)
    /\ ld_pc = "loaded" =>
         /\ ~Conflict(entries)
         /\ \A i \in 1..Len(entries) :
               /\ entries[i].key \in DOMAIN key_to_struct
               /\ key_to_struct[entries[i].key] = entries[i].struct

C10_Witness ==
    /\ ld_pc = "AssertionError"
    /\ \E i, j \in 1..Len(entries) :
          i < j /\ entries[i].key = entries[j].key
                /\ entries[i].struct # entries[j].struct

-----------------------------------------------------------------------------
\* Claims on the alignment pass.

LeftName(v) == getNameForKey(left_info, extractRuleKeyRef(v))
RightName(v) == getNameForKey(right_info, extractRuleKeyRef(v))
\* no HumanName occurs twice in the list
DistinctNames(values, info) ==
    \A i, j \in 1..Len(values) :
       (i # j /\ getNameForKey(info, extractRuleKeyRef(values[i])) # None)
          => getNameForKey(info, extractRuleKeyRef(values[i]))
               # getNameForKey(info, extractRuleKeyRef(values[j]))
\* the aligned right list has, at position i, the name of the left list's
\* position i
AlignedAt(i) ==
    /\ i <= Len(al_out)
    /\ getNameForKey(right_info, al_out[i][2]) = LeftName(al_left[i])
NameOnRight(n) == \E j \in 1..Len(al_right) : RightName(al_right[j]) = n

\* C7 as stated: for lists of any lengths without repeated names, every left
\* position whose name some right reference carries has that name at the same
\* position of the aligned right list.
C7_AlignedAtEveryLeftPosition ==
    (al_pc = "aligned" /\ DistinctNames(al_left, left_info)
                       /\ DistinctNames(al_right, right_info)) =>
       \A i \in 1..Len(al_left) :
          (LeftName(al_left[i]) # None /\ NameOnRight(LeftName(al_left[i])))
             => AlignedAt(i)

\* C7 as amended: the same for every left position that the right list has.
C7_AlignedWithinRightLength ==
    (al_pc = "aligned" /\ DistinctNames(al_left, left_info)
                       /\ DistinctNames(al_right, right_info)) =>
       \A i \in 1..Len(al_left) :
          (i <= Len(al_right) /\ LeftName(al_left[i]) # None
             /\ NameOnRight(LeftName(al_left[i])))
             => AlignedAt(i)

\* left [X, Y, Z] against right [Z, X, Y]
C7_Witness ==
    /\ al_pc = "aligned"
    /\ al_left = <<RefTo(1), RefTo(2), RefTo(3)>>
    /\ al_right = <<RefTo(7), RefTo(5), RefTo(6)>>
    /\ al_out = getRuleKeyRefs(<<RefTo(5), RefTo(6), RefTo(7)>>)

-----------------------------------------------------------------------------
\* Claims on the differ.

Count(s, v) == Cardinality({i \in 1..Len(s) : s[i] = v})
SameMultiset(l, r) == \A v \in Range(l) \cup Range(r) : Count(l, v) = Count(r, v)

\* C8: diff() returns exactly ['No changes'] iff the two lists are equal, and
\* exactly the order-only line iff they are unequal and equal as multisets.
C8_NoChangesAndOrderOnly ==
    d_done =>
      /\ (d_out = <<NoChanges>>) <=> (d_left = d_right)
      /\ (d_out = <<OrderOnly(d_left, d_right)>>)
           <=> (d_left # d_right /\ SameMultiset(d_left, d_right))

C8_Witness ==
    /\ d_done
    /\ d_left # d_right
    /\ SameMultiset(d_left, d_right)
    /\ d_out = <<OrderOnly(d_left, d_right)>>

\* the list with every element lower-cased
Lowered(s) == [i \in 1..Len(s) |-> Lower(s[i])]

\* C11: whenever diff() returns the order-and-case-only banner, the two lists
\* are equal as multisets once every element is lower-cased: a difference in
\* how often a value occurs is never reported as order and case only.
C11_BannerOnlyForCaseAndOrder ==
    (d_done /\ d_out # <<>> /\ d_out[1] = OrderAndCaseOnly) =>
       SameMultiset(Lowered(d_left), Lowered(d_right))

\* rules 1 to 3 do not match
GeneralCase(l, r) ==
    /\ l # r
    /\ ~SameMultiset(l, r)
    /\ Range(Lowered(l)) # Range(Lowered(r))
\* what is left of mine once the elements the other side lacks are taken out
\* and the rest is paired by position with the other side's, equal pairs dropped
Leftover(mine, other) ==
    NotInOrder(Filter(mine, Range(mine) \ Range(other)),
               Filter(other, Range(other) \ Range(mine)))
IsRemainingLine(line) ==
    line.kind \in {OrderOnlyRemaining(<<>>, <<>>).kind,
                   OrderRepsRemaining(<<>>, <<>>).kind}

\* C12: in the general case the 'remaining entries' line is in the result
\* exactly when a leftover element remains on the left or on the right side.
C12_RemainingLineIffLeftover ==
    (d_done /\ GeneralCase(d_left, d_right)) =>
       ((\E i \in 1..Len(d_out) : IsRemainingLine(d_out[i]))
          <=> (Leftover(d_left, d_right) # <<>> \/ Leftover(d_right, d_left) # <<>>))

====
